---- MODULE Spec2Model ----
(***************************************************************************)
(* A model of aiotailwind's TailwindController (src/aiotailwind/tailwind.py) *)
(* talking to a Tailwind device through the Auth collaborator.             *)
(*                                                                         *)
(* The controller's only state is raw_data, the last snapshot.  Every      *)
(* coroutine of the controller is cut at its awaits of Auth.request: one   *)
(* action sends the request, one action is the exchange with the device,   *)
(* one action resumes the coroutine with the reply.  get_json is a pure    *)
(* function of the response and is computed as the code computes it,       *)
(* together with the list of operations it performed on the response.      *)
(***************************************************************************)
EXTENDS Integers, Sequences, FiniteSets, TLC

VARIABLES
    raw_data,   \* TailwindController.raw_data: the snapshot
    device,     \* the state of the device behind Auth
    call,       \* per caller: the coroutine of the call it has in flight
    served,     \* number of replies the device has produced so far
    started,    \* number of calls started so far
    snapStamp,  \* which reply raw_data was taken from (0: the constructor's)
    init_data,  \* the raw_data the controller was constructed with
    lastDevSt,  \* the last dev_st response that came back good, if any
    view        \* what the caller last read from the controller's accessors

vars == <<raw_data, device, call, served, started, snapStamp, init_data, lastDevSt, view>>

(***************************************************************************)
(* Bounds.                                                                 *)
(***************************************************************************)
Callers == {"A", "B"}

\* Calls started in one behaviour.
MaxCalls == 3

(***************************************************************************)
(* Python values.                                                          *)
(***************************************************************************)
COMMAND_OPEN == "open"

COMMAND_CLOSE == "close"

\* Python's None.
None == [none |-> TRUE]

\* An int argument that is not None.
Some(v) == [none |-> FALSE, v |-> v]

\* The dict {} that demo.py constructs the controller with.
EmptyDict == [k \in {} |-> 0]

(***************************************************************************)
(* The exceptions that cross the controller.                               *)
(***************************************************************************)
TailwindError(info) == [exc |-> "TailwindError", info |-> info]

\* str(TailwindError): the info behind a fixed prefix, as a pair of strings.
TailwindErrorStr(e) == <<"Tailwind error: ", e.info>>

ClientResponseError(status) == [exc |-> "ClientResponseError", status |-> status]

ContentTypeError == [exc |-> "ContentTypeError"]

JSONDecodeError == [exc |-> "JSONDecodeError"]

KeyError(key) == [exc |-> "KeyError", key |-> key]

TimeoutError == [exc |-> "TimeoutError"]

EMPTY_RESPONSE == "empty response (request may be invalid)"

(***************************************************************************)
(* Request envelopes.                                                      *)
(***************************************************************************)
\* async_control_door, lines 146-159: the door_op envelope.
DoorOpRequest_truthy_partial_time(index, command, partial_time) ==
    [version |-> "0.1",
     data |-> [type |-> "set",
               name |-> "door_op",
               value |-> IF command = COMMAND_OPEN /\ partial_time # None
                            /\ partial_time.v # 0
                         THEN [door_idx |-> index, cmd |-> command,
                               partial_time |-> partial_time.v]
                         ELSE [door_idx |-> index, cmd |-> command]]]

DoorOpRequest(index, command, partial_time) ==
    [version |-> "0.1",
     data |-> [type |-> "set",
               name |-> "door_op",
               value |-> IF command = COMMAND_OPEN /\ partial_time # None
                         THEN [door_idx |-> index, cmd |-> command,
                               partial_time |-> partial_time.v]
                         ELSE [door_idx |-> index, cmd |-> command]]]

\* async_set_status_led_brightness, lines 183-192.
StatusLedRequest(brightness) ==
    [version |-> "0.1",
     data |-> [type |-> "set",
               name |-> "status_led",
               value |-> [brightness |-> brightness]]]

\* async_update, lines 203-209: no value key.
DevStRequest ==
    [version |-> "0.1", data |-> [type |-> "get", name |-> "dev_st"]]

(***************************************************************************)
(* Responses (aiohttp.ClientResponse as the controller uses it).           *)
(***************************************************************************)
JSON_CONTENT_TYPE == "application/json"

HTML_CONTENT_TYPE == "text/html"

ContentTypes == {JSON_CONTENT_TYPE, HTML_CONTENT_TYPE, "text/plain"}

\* A body that is a JSON text, by the value it decodes to.
JsonBody(value) == [tag |-> "json", value |-> value]

\* A body that is no JSON text.
InvalidBody == [tag |-> "invalid"]

Response(status, ctype, body) == [status |-> status, ctype |-> ctype, body |-> body]

\* The two ways a call of resp.json or get_json ends.
Raises(e, ops) == [ok |-> FALSE, exc |-> e, ops |-> ops]

Returns(v, ops) == [ok |-> TRUE, value |-> v, ops |-> ops]

\* resp.raise_for_status(): raises for a status of 400 and above.
raise_for_status(resp) == resp.status >= 400

\* resp.json(content_type=...): the declared content type is checked against
\* the expected one before the body is parsed.
json(resp, content_type) ==
    IF resp.ctype # content_type
    THEN Raises(ContentTypeError, <<>>)
    ELSE IF resp.body.tag = "invalid"
         THEN Raises(JSONDecodeError, <<>>)
         ELSE Returns(resp.body.value, <<>>)

\* One entry of get_json's list of operations.
Op(name, arg) == <<name, arg>>

RaiseForStatusOp == Op("raise_for_status", "")

JsonOp(content_type) == Op("json", content_type)

IsNoneOp == Op("is None", "")

GetItemOp(key) == Op("getitem", key)

\* Decode with a bug: the retry follows any error of the first decode
\* (except Exception), not ContentTypeError alone.
Decode_retries_any_error(resp) ==
    LET first == json(resp, JSON_CONTENT_TYPE)
        retry == ~first.ok
        last == IF retry THEN json(resp, HTML_CONTENT_TYPE) ELSE first
        ops == <<RaiseForStatusOp, JsonOp(JSON_CONTENT_TYPE)>>
               \o (IF retry THEN <<JsonOp(HTML_CONTENT_TYPE)>> ELSE <<>>)
    IN IF last.ok THEN Returns(last.value, ops) ELSE Raises(last.exc, ops)

\* get_json, lines 220-226: the body is decoded with the default content
\* type, and once more as text/html when that raised ContentTypeError.
Decode(resp) ==
    LET first == json(resp, JSON_CONTENT_TYPE)
        retry == ~first.ok /\ first.exc = ContentTypeError
        last == IF retry THEN json(resp, HTML_CONTENT_TYPE) ELSE first
        ops == <<RaiseForStatusOp, JsonOp(JSON_CONTENT_TYPE)>>
               \o (IF retry THEN <<JsonOp(HTML_CONTENT_TYPE)>> ELSE <<>>)
    IN IF last.ok THEN Returns(last.value, ops) ELSE Raises(last.exc, ops)

\* CheckEnvelope with a bug: result is read before the test for None, and
\* None has no items.
CheckEnvelope_result_first(body, ops) ==
    LET ops2 == Append(ops, GetItemOp("result"))
        ops3 == Append(ops2, IsNoneOp)
        ops4 == Append(ops3, GetItemOp("info"))
    IN IF body = None
       THEN Raises([exc |-> "TypeError"], ops2)
       ELSE IF "result" \notin DOMAIN body
            THEN Raises(KeyError("result"), ops2)
            ELSE IF body.result # "OK"
                 THEN IF "info" \in DOMAIN body
                      THEN Raises(TailwindError(body.info), ops4)
                      ELSE Raises(KeyError("info"), ops4)
                 ELSE Returns(body, ops3)

\* CheckEnvelope with a bug: of a good envelope only the data field is
\* returned.
CheckEnvelope_returns_data(body, ops) ==
    LET ops2 == Append(ops, IsNoneOp)
        ops3 == Append(ops2, GetItemOp("result"))
        ops4 == Append(ops3, GetItemOp("info"))
    IN IF body = None
       THEN Raises(TailwindError(EMPTY_RESPONSE), ops2)
       ELSE IF "result" \notin DOMAIN body
            THEN Raises(KeyError("result"), ops3)
            ELSE IF body.result # "OK"
                 THEN IF "info" \in DOMAIN body
                      THEN Raises(TailwindError(body.info), ops4)
                      ELSE Raises(KeyError("info"), ops4)
                 ELSE IF "data" \in DOMAIN body
                      THEN Returns(body.data, Append(ops3, GetItemOp("data")))
                      ELSE Raises(KeyError("data"), Append(ops3, GetItemOp("data")))

\* get_json, lines 228-234: the checks of the decoded body.
CheckEnvelope(body, ops) ==
    LET ops2 == Append(ops, IsNoneOp)
        ops3 == Append(ops2, GetItemOp("result"))
        ops4 == Append(ops3, GetItemOp("info"))
    IN IF body = None
       THEN Raises(TailwindError(EMPTY_RESPONSE), ops2)
       ELSE IF "result" \notin DOMAIN body
            THEN Raises(KeyError("result"), ops3)
            ELSE IF body.result # "OK"
                 THEN IF "info" \in DOMAIN body
                      THEN Raises(TailwindError(body.info), ops4)
                      ELSE Raises(KeyError("info"), ops4)
                 ELSE Returns(body, ops3)

\* get_json with a bug: the status is looked at after the body is decoded.
get_json_decodes_first(resp) ==
    LET d == Decode(resp)
    IN IF ~d.ok
       THEN d
       ELSE IF raise_for_status(resp)
            THEN Raises(ClientResponseError(resp.status), d.ops)
            ELSE CheckEnvelope(d.value, d.ops)

\* get_json, lines 214-234.  ops lists, in order, what was done with the
\* response and the decoded body.
get_json(resp) ==
    IF raise_for_status(resp)
    THEN Raises(ClientResponseError(resp.status), <<RaiseForStatusOp>>)
    ELSE LET d == Decode(resp)
         IN IF d.ok THEN CheckEnvelope(d.value, d.ops) ELSE d

(***************************************************************************)
(* The device: one controller ("iQ3") with the doors DoorKeys and a status *)
(* LED.  It is the authority on the validity of a command.                 *)
(***************************************************************************)
DoorKeys == <<"door1">>

DoorIndices == 0 .. (Len(DoorKeys) - 1)

InitDevice == [doors |-> [i \in 1 .. Len(DoorKeys) |-> "close"], led |-> 100]

\* The body of the device's answer to dev_st: its whole status.
DevStatus(dev) ==
    [result |-> "OK",
     product |-> "iQ3",
     dev_id |-> "_30_ae_a4_80_18_80_",
     proto_ver |-> "0.1",
     fw_ver |-> "9.95",
     door_num |-> Len(DoorKeys),
     night_mode_en |-> 0,
     led_brightness |-> dev.led,
     data |-> [i \in 1 .. Len(DoorKeys) |->
                 [key |-> DoorKeys[i],
                  value |-> [index |-> i - 1, status |-> dev.doors[i],
                             enabled |-> 1, lockup |-> 0]]]]

\* The body of the device's answer to a command it has executed.
CommandDone == [result |-> "OK"]

IsDevSt(req) == req.data.name = "dev_st"

\* Whether the device executes the request.
DeviceAccepts(req) ==
    CASE req.data.name = "dev_st" -> TRUE
      [] req.data.name = "door_op" -> req.data.value.door_idx \in DoorIndices
      [] req.data.name = "status_led" -> req.data.value.brightness \in 0 .. 100
      [] OTHER -> FALSE

\* The device after it has executed the request.
DeviceApply(req, dev) ==
    CASE req.data.name = "door_op" ->
           [dev EXCEPT !.doors[req.data.value.door_idx + 1] = req.data.value.cmd]
      [] req.data.name = "status_led" ->
           [dev EXCEPT !.led = req.data.value.brightness]
      [] OTHER -> dev

\* What the device answers when it executes the request.
Executed(req, dev) ==
    [dev |-> DeviceApply(req, dev),
     executed |-> ~IsDevSt(req),
     status |-> 200,
     body |-> JsonBody(IF IsDevSt(req) THEN DevStatus(dev) ELSE CommandDone)]

\* An answer of a device that did not execute the request.
Refused(dev, status, body) ==
    [dev |-> dev, executed |-> FALSE, status |-> status, body |-> body]

\* The answers of a device that does not execute the request: an error
\* envelope with or without info, a null body, a body that is no JSON, and
\* HTTP errors (whatever their body).
AllFaults ==
    { <<200, JsonBody([result |-> "ERR", info |-> "busy"])>>,
      <<200, JsonBody([result |-> "ERR"])>>,
      <<200, JsonBody(None)>>,
      <<200, InvalidBody>>,
      <<500, InvalidBody>>,
      <<500, JsonBody(CommandDone)>> }

DeviceReplies(req, dev, faults) ==
    (IF DeviceAccepts(req) THEN {Executed(req, dev)} ELSE {})
    \cup { Refused(dev, f[1], f[2]) : f \in faults }

(***************************************************************************)
(* Calls.                                                                  *)
(***************************************************************************)
Pending == [kind |-> "pending"]

Returned == [kind |-> "returned"]

Raised(e) == [kind |-> "raised", exc |-> e]

IdleCall ==
    [pc |-> "idle", op |-> "none", reqs |-> <<>>, replies |-> <<>>,
     outcomes |-> <<>>, result |-> Pending, before |-> None, executed |-> FALSE,
     args |-> None]

\* A reply of Auth.request: a response, or an exception of the transport.
\* stamp orders the replies by the moment the device produced them.
ReplyResponse(resp, stamp) == [raised |-> FALSE, resp |-> resp, stamp |-> stamp]

ReplyRaised(e, stamp) == [raised |-> TRUE, exc |-> e, stamp |-> stamp]

\* The call has sent a request and its reply has not arrived.
Awaiting(c) == /\ call[c].pc \in {"command", "update"}
               /\ Len(call[c].replies) < Len(call[c].reqs)

\* The reply of the call's last request has arrived.
Replied(c) == /\ call[c].pc \in {"command", "update"}
              /\ Len(call[c].replies) = Len(call[c].reqs)

LastReply(c) == call[c].replies[Len(call[c].replies)]

\* A call begins: it builds req and awaits self.auth.request("post", "json", json=req).
Begin(c, op, pc, req, args) ==
    /\ call[c].pc = "idle"
    /\ started < MaxCalls
    /\ started' = started + 1
    /\ call' = [call EXCEPT ![c] =
                  [pc |-> pc, op |-> op, reqs |-> <<req>>, replies |-> <<>>,
                   outcomes |-> <<>>, result |-> Pending, before |-> raw_data,
                   executed |-> FALSE, args |-> args]]
    /\ UNCHANGED <<raw_data, device, served, snapStamp, init_data, lastDevSt, view>>

\* The call ends: the coroutine returns or raises.
Finish(c, result, outcomes) ==
    call' = [call EXCEPT ![c].pc = "done", ![c].result = result,
                         ![c].outcomes = outcomes]

\* One round trip, as the coroutine sees it when it resumes:
\* resp = await self.auth.request(...) followed by await self.get_json(resp).
RoundTrip(r) == IF r.raised THEN Raises(r.exc, <<>>) ELSE get_json(r.resp)

\* async_control_door up to its first await, lines 144-163.
async_control_door(c, op, index, command, partial_time) ==
    Begin(c, op, "command", DoorOpRequest(index, command, partial_time),
          [index |-> index, partial_time |-> partial_time])

async_open_door(c, index) ==
    async_control_door(c, "async_open_door", index, COMMAND_OPEN, None)

async_partial_open_door(c, index, partial_time) ==
    async_control_door(c, "async_partial_open_door", index, COMMAND_OPEN, partial_time)

async_close_door(c, index) ==
    async_control_door(c, "async_close_door", index, COMMAND_CLOSE, None)

async_set_status_led_brightness_clamps(c, brightness) ==
    Begin(c, "async_set_status_led_brightness", "command",
          StatusLedRequest(IF brightness > 100 THEN 100 ELSE brightness),
          [brightness |-> brightness])

\* async_set_status_led_brightness up to its first await, lines 181-195.
async_set_status_led_brightness(c, brightness) ==
    Begin(c, "async_set_status_led_brightness", "command", StatusLedRequest(brightness),
          [brightness |-> brightness])

\* async_update called by the caller, up to its await, lines 201-210.
async_update(c) ==
    Begin(c, "async_update", "update", DevStRequest, None)

\* A reply with which a round trip succeeds, said of the reply alone: it is
\* a response, its status is no error, its content type is one the decoder
\* reads, and its body is a JSON object whose result is "OK".
GoodReply(r) ==
    /\ ~r.raised
    /\ r.resp.status < 400
    /\ r.resp.ctype \in {JSON_CONTENT_TYPE, HTML_CONTENT_TYPE}
    /\ r.resp.body.tag = "json"
    /\ r.resp.body.value # None
    /\ "result" \in DOMAIN r.resp.body.value
    /\ r.resp.body.value.result = "OK"

\* No dev_st response has come back good yet.
NoDevSt == [none |-> TRUE]

\* The last good dev_st response after the reply r to the request req.
LastDevStAfter(req, r) ==
    IF IsDevSt(req) /\ GoodReply(r)
    THEN [none |-> FALSE, stamp |-> r.stamp, body |-> r.resp.body.value]
    ELSE lastDevSt

\* Auth.request: the request reaches the device or not, the device answers,
\* and the answer comes back as a response or is lost to a timeout.
AuthRequest(c, faults, ctypes) ==
    /\ Awaiting(c)
    /\ LET req == call[c].reqs[Len(call[c].reqs)] IN
       \/ /\ call' = [call EXCEPT ![c].replies = Append(@, ReplyRaised(TimeoutError, served))]
          /\ UNCHANGED <<device, served, lastDevSt>>
       \/ \E o \in DeviceReplies(req, device, faults), ct \in ctypes, lost \in BOOLEAN :
             /\ device' = o.dev
             /\ served' = served + 1
             /\ LET r == IF lost
                         THEN ReplyRaised(TimeoutError, served + 1)
                         ELSE ReplyResponse(Response(o.status, ct, o.body), served + 1)
                IN /\ call' = [call EXCEPT ![c].executed = @ \/ o.executed,
                                           ![c].replies = Append(@, r)]
                   /\ lastDevSt' = LastDevStAfter(req, r)
    /\ UNCHANGED <<raw_data, started, snapStamp, init_data, view>>

\* command_resume with a bug: the error of the command's round trip is
\* dropped and the refresh is sent all the same.
command_resume_ignores_error(c) ==
    /\ call[c].pc = "command"
    /\ Replied(c)
    /\ call' = [call EXCEPT ![c].pc = "update",
                  ![c].outcomes = Append(@, RoundTrip(LastReply(c))),
                  ![c].reqs = Append(@, DevStRequest)]
    /\ UNCHANGED <<raw_data, device, served, started, snapStamp, init_data, lastDevSt, view>>

\* command_resume with a bug: the command's own response becomes the
\* snapshot before the refresh is sent.
command_resume_stores_response(c) ==
    /\ call[c].pc = "command"
    /\ Replied(c)
    /\ LET j == RoundTrip(LastReply(c))
           o == Append(call[c].outcomes, j)
       IN IF j.ok
          THEN /\ call' = [call EXCEPT ![c].pc = "update", ![c].outcomes = o,
                                       ![c].reqs = Append(@, DevStRequest)]
               /\ raw_data' = j.value
          ELSE /\ Finish(c, Raised(j.exc), o)
               /\ UNCHANGED raw_data
    /\ UNCHANGED <<device, served, started, snapStamp, init_data, lastDevSt, view>>

\* command_resume with a bug: an error of the command is raised again as a
\* TailwindError.
command_resume_wraps_error(c) ==
    /\ call[c].pc = "command"
    /\ Replied(c)
    /\ LET j == RoundTrip(LastReply(c))
           o == Append(call[c].outcomes, j)
       IN IF j.ok
          THEN call' = [call EXCEPT ![c].pc = "update", ![c].outcomes = o,
                                    ![c].reqs = Append(@, DevStRequest)]
          ELSE Finish(c, Raised(TailwindError("command failed")), o)
    /\ UNCHANGED <<raw_data, device, served, started, snapStamp, init_data, lastDevSt, view>>

\* A command resumes with the reply of its request: lines 161-167 and
\* 193-199, up to async_update's await at line 210.
command_resume(c) ==
    /\ call[c].pc = "command"
    /\ Replied(c)
    /\ LET j == RoundTrip(LastReply(c))
           o == Append(call[c].outcomes, j)
       IN IF j.ok
          THEN call' = [call EXCEPT ![c].pc = "update", ![c].outcomes = o,
                                    ![c].reqs = Append(@, DevStRequest)]
          ELSE Finish(c, Raised(j.exc), o)
    /\ UNCHANGED <<raw_data, device, served, started, snapStamp, init_data, lastDevSt, view>>

\* update_resume with a bug: only the data field of the envelope is kept.
update_resume_keeps_data(c) ==
    /\ call[c].pc = "update"
    /\ Replied(c)
    /\ LET r == LastReply(c)
           j == RoundTrip(r)
           o == Append(call[c].outcomes, j)
       IN IF j.ok
          THEN /\ raw_data' = IF "data" \in DOMAIN j.value THEN j.value.data ELSE EmptyDict
               /\ snapStamp' = r.stamp
               /\ Finish(c, Returned, o)
          ELSE /\ Finish(c, Raised(j.exc), o)
               /\ UNCHANGED <<raw_data, snapStamp>>
    /\ UNCHANGED <<device, served, started, init_data, lastDevSt, view>>

\* update_resume with a bug: a failed refresh clears the snapshot.
update_resume_clears_on_error(c) ==
    /\ call[c].pc = "update"
    /\ Replied(c)
    /\ LET r == LastReply(c)
           j == RoundTrip(r)
           o == Append(call[c].outcomes, j)
       IN IF j.ok
          THEN /\ raw_data' = j.value
               /\ snapStamp' = r.stamp
               /\ Finish(c, Returned, o)
          ELSE /\ raw_data' = EmptyDict
               /\ Finish(c, Raised(j.exc), o)
               /\ UNCHANGED snapStamp
    /\ UNCHANGED <<device, served, started, init_data, lastDevSt, view>>

\* update_resume with a guard the code does not have: a reply older than
\* the snapshot is dropped.
update_resume_keeps_newest(c) ==
    /\ call[c].pc = "update"
    /\ Replied(c)
    /\ LET r == LastReply(c)
           j == RoundTrip(r)
           o == Append(call[c].outcomes, j)
       IN IF j.ok
          THEN /\ raw_data' = IF r.stamp > snapStamp THEN j.value ELSE raw_data
               /\ snapStamp' = IF r.stamp > snapStamp THEN r.stamp ELSE snapStamp
               /\ Finish(c, Returned, o)
          ELSE /\ Finish(c, Raised(j.exc), o)
               /\ UNCHANGED <<raw_data, snapStamp>>
    /\ UNCHANGED <<device, served, started, init_data, lastDevSt, view>>

\* update_resume with a bug: the new status is written into the tree that
\* raw_data names, raw_data.clear() and raw_data.update(...), so that the
\* tree a caller still holds from an earlier read has the new contents.
update_resume_in_place(c) ==
    /\ call[c].pc = "update"
    /\ Replied(c)
    /\ LET r == LastReply(c)
           j == RoundTrip(r)
           o == Append(call[c].outcomes, j)
       IN IF j.ok
          THEN /\ raw_data' = j.value
               /\ snapStamp' = r.stamp
               /\ view' = IF view.none THEN view ELSE [view EXCEPT !.of = j.value]
               /\ Finish(c, Returned, o)
          ELSE /\ Finish(c, Raised(j.exc), o)
               /\ UNCHANGED <<raw_data, snapStamp, view>>
    /\ UNCHANGED <<device, served, started, init_data, lastDevSt>>

\* async_update resumes with the reply of its request: lines 210-212.
update_resume(c) ==
    /\ call[c].pc = "update"
    /\ Replied(c)
    /\ LET r == LastReply(c)
           j == RoundTrip(r)
           o == Append(call[c].outcomes, j)
       IN IF j.ok
          THEN /\ raw_data' = j.value
               /\ snapStamp' = r.stamp
               /\ Finish(c, Returned, o)
          ELSE /\ Finish(c, Raised(j.exc), o)
               /\ UNCHANGED <<raw_data, snapStamp>>
    /\ UNCHANGED <<device, served, started, init_data, lastDevSt, view>>

\* The caller takes the outcome of its call (demo.py's try/except) and is
\* free to call again.
CallEnds(c) ==
    /\ call[c].pc = "done"
    /\ call' = [call EXCEPT ![c] = IdleCall]
    /\ UNCHANGED <<raw_data, device, served, started, snapStamp, init_data, lastDevSt, view>>

(***************************************************************************)
(* Inputs.                                                                 *)
(***************************************************************************)
Indices == {0, 1}

PartialTimes == {None, Some(0), Some(15)}

Brightnesses == {50, 150}

\* No other caller has a call in flight.
Serialized(c) == \A d \in Callers \ {c} : call[d].pc = "idle"

\* TailwindController(raw_data, auth), lines 91-94: demo.py passes {}; a
\* caller may as well pass a status it has kept.
(***************************************************************************)
(* The accessors: pure functions of the snapshot (lines 16-142).  A read   *)
(* of a key that the dict does not have raises KeyError.                   *)
(***************************************************************************)
Value(v) == [ok |-> TRUE, value |-> v]

Fails(e) == [ok |-> FALSE, exc |-> e]

\* d[key]
GetItem(d, key) == IF key \in DOMAIN d THEN Value(d[key]) ELSE Fails(KeyError(key))

Min(a, b) == IF a <= b THEN a ELSE b

Max(a, b) == IF a >= b THEN a ELSE b

\* seq[:n]
SliceTo(seq, n) ==
    IF n >= 0
    THEN SubSeq(seq, 1, Min(n, Len(seq)))
    ELSE SubSeq(seq, 1, Max(0, Len(seq) + n))

\* Door.__init__, lines 19-23 (auth left out).
Door(key, door_data) == [key |-> key, raw_data |-> door_data]

\* Door.door_key, lines 25-28.
door_key(door) == door.key

\* Door.is_open, lines 30-33.
is_open(door) ==
    LET s == GetItem(door.raw_data, "status")
    IN IF s.ok THEN Value(s.value = "open") ELSE s

\* Door.is_enabled, lines 35-38.
is_enabled(door) ==
    LET s == GetItem(door.raw_data, "enabled")
    IN IF s.ok THEN Value(s.value = 1) ELSE s

\* is_locked_out with a bug: the older key lockup is looked at first.
is_locked_out_prefers_lockup(door) ==
    IF "lockup" \in DOMAIN door.raw_data
    THEN Value(door.raw_data.lockup = 1)
    ELSE LET s == GetItem(door.raw_data, "lockedout")
         IN IF s.ok THEN Value(s.value = 1) ELSE s

\* Door.is_locked_out, lines 40-46.
is_locked_out(door) ==
    IF "lockedout" \in DOMAIN door.raw_data
    THEN Value(door.raw_data.lockedout = 1)
    ELSE LET s == GetItem(door.raw_data, "lockup")
         IN IF s.ok THEN Value(s.value = 1) ELSE s

\* Light.__init__, lines 51-54 (auth left out).
Light(light_data) == [raw_data |-> light_data]

\* Light.mode, lines 56-59.
mode(lt) == GetItem(lt.raw_data, "mode")

\* Light.light_power, lines 61-64.
light_power(lt) ==
    LET l == GetItem(lt.raw_data, "light")
    IN IF l.ok THEN GetItem(l.value, "power") ELSE l

\* TailwindController.product, lines 101-104.
product(rd) == GetItem(rd, "product")

\* TailwindController.num_doors, lines 106-111.
num_doors(rd) ==
    LET p == product(rd)
    IN IF ~p.ok THEN p
       ELSE IF p.value # "iQ3" THEN Value(0) ELSE GetItem(rd, "door_num")

\* night_mode with a bug: the product is not looked at.
night_mode_any_product(rd) ==
    LET n == GetItem(rd, "night_mode_en")
    IN IF n.ok THEN Value(n.value = 1) ELSE n

\* TailwindController.night_mode, lines 123-128.
night_mode(rd) ==
    LET p == product(rd)
    IN IF ~p.ok THEN p
       ELSE IF p.value # "iQ3" THEN Value(FALSE)
            ELSE LET n == GetItem(rd, "night_mode_en")
                 IN IF n.ok THEN Value(n.value = 1) ELSE n

\* doors with a bug: the list is not cut to num_doors.
doors_untruncated(rd) ==
    LET p == product(rd)
    IN IF ~p.ok THEN p
       ELSE IF p.value # "iQ3" THEN Value(<<>>)
            ELSE LET d == GetItem(rd, "data")
                 IN IF ~d.ok THEN d
                    ELSE Value([i \in 1 .. Len(d.value) |->
                                  Door(d.value[i].key, d.value[i].value)])

\* TailwindController.doors, lines 130-135.  The dict data is the sequence
\* of its items, in insertion order.
doors(rd) ==
    LET p == product(rd)
    IN IF ~p.ok THEN p
       ELSE IF p.value # "iQ3" THEN Value(<<>>)
            ELSE LET d == GetItem(rd, "data")
                     n == num_doors(rd)
                 IN IF ~d.ok THEN d
                    ELSE IF ~n.ok THEN n
                    ELSE Value(SliceTo([i \in 1 .. Len(d.value) |->
                                          Door(d.value[i].key, d.value[i].value)],
                                       n.value))

\* light with a bug: the product is not looked at.
light_any_product(rd) ==
    LET d == GetItem(rd, "data")
    IN IF d.ok THEN Value(Light(d.value)) ELSE d

\* TailwindController.light, lines 137-142.
light(rd) ==
    LET p == product(rd)
    IN IF ~p.ok THEN p
       ELSE IF p.value # "light" THEN Value(None)
            ELSE LET d == GetItem(rd, "data")
                 IN IF d.ok THEN Value(Light(d.value)) ELSE d

\* What a caller reads from the controller whose snapshot is the object
\* tree and has the value rd: the accessors, and is_locked_out of each door.
ReadView(tree, rd) ==
    LET ds == doors(rd)
    IN [none |-> FALSE, tree |-> tree, of |-> rd,
        num_doors |-> num_doors(rd),
        night_mode |-> night_mode(rd),
        doors |-> ds,
        light |-> light(rd),
        locked |-> IF ds.ok
                   THEN [i \in 1 .. Len(ds.value) |-> is_locked_out(ds.value[i])]
                   ELSE <<>>]

\* The caller reads the accessors (demo.py, line 17).
ReadAccessors ==
    /\ view' = ReadView(snapStamp, raw_data)
    /\ UNCHANGED <<raw_data, device, call, served, started, snapStamp, init_data, lastDevSt>>

\* Nothing has been read from the accessors.
NoView == [none |-> TRUE]

\* The state after the construction with raw_data.
Constructed(data) ==
    /\ raw_data = data
    /\ init_data = data
    /\ device = InitDevice
    /\ call = [c \in Callers |-> IdleCall]
    /\ served = 0
    /\ started = 0
    /\ snapStamp = 0
    /\ lastDevSt = NoDevSt
    /\ view = NoView

Init == \E data \in {EmptyDict, DevStatus(InitDevice)} : Constructed(data)

\* A controller used as the library asks: one call at a time.
Next ==
    \E c \in Callers :
       \/ Serialized(c) /\ \E i \in Indices : async_open_door(c, i)
       \/ Serialized(c) /\ \E i \in Indices, t \in PartialTimes :
                              async_partial_open_door(c, i, t)
       \/ Serialized(c) /\ \E i \in Indices : async_close_door(c, i)
       \/ Serialized(c) /\ \E b \in Brightnesses : async_set_status_led_brightness(c, b)
       \/ Serialized(c) /\ async_update(c)
       \/ AuthRequest(c, AllFaults, ContentTypes)
       \/ command_resume(c)
       \/ update_resume(c)
       \/ CallEnds(c)

Spec == Init /\ [][Next]_vars

(***************************************************************************)
(* The same controller used by two callers at once, which the library does *)
(* not prevent: calls overlap at their awaits.  The inputs are fewer.      *)
(***************************************************************************)
FewFaults == { <<200, JsonBody([result |-> "ERR", info |-> "busy"])>> }

ConcNext ==
    \E c \in Callers :
       \/ async_open_door(c, 0)
       \/ async_close_door(c, 0)
       \/ async_update(c)
       \/ AuthRequest(c, FewFaults, {JSON_CONTENT_TYPE})
       \/ command_resume(c)
       \/ update_resume(c)
       \/ CallEnds(c)

ConcSpec == Init /\ [][ConcNext]_vars

(***************************************************************************)
(* A caller that reads the accessors between its calls and keeps what it   *)
(* has read: after `doors = controller.doors`, doors and each Door's       *)
(* raw_data name parts of the tree that raw_data named at that time.       *)
(***************************************************************************)
ProjNext ==
    \/ \E c \in Callers :
          \/ Serialized(c) /\ async_open_door(c, 0)
          \/ Serialized(c) /\ async_close_door(c, 0)
          \/ Serialized(c) /\ async_update(c)
          \/ AuthRequest(c, FewFaults, {JSON_CONTENT_TYPE})
          \/ command_resume(c)
          \/ update_resume(c)
          \/ CallEnds(c)
    \/ ReadAccessors

ProjSpec == Init /\ [][ProjNext]_vars

(***************************************************************************)
(* The accessors over the snapshots a controller can be constructed with.  *)
(***************************************************************************)
\* Entries of the data mapping of a snapshot.
MaxDoors == 2

\* door_num of a snapshot.
MaxDoorNum == 3

Products == {"iQ3", "light", "other"}

KeyPool == {"door1", "door2", "door3"}

\* Door records: the locked-out flag under the new key, both keys, the old
\* key, or none.
DoorRecords ==
    { [status |-> "open", enabled |-> 1, lockedout |-> 0, lockup |-> 1],
      [status |-> "close", enabled |-> 1, lockedout |-> 1],
      [status |-> "close", enabled |-> 0, lockup |-> 1],
      [status |-> "open", enabled |-> 1, lockup |-> 0],
      [status |-> "close", enabled |-> 1] }

\* The data mappings: up to MaxDoors items with distinct keys, in any order.
DoorMaps ==
    UNION { { m \in [1 .. n -> [key : KeyPool, value : DoorRecords]] :
                \A i, j \in 1 .. n : i # j => m[i].key # m[j].key } :
            n \in 0 .. MaxDoors }

LightRecord ==
    [mode |-> "auto",
     light |-> [power |-> 100, frequency |-> 1000],
     radar |-> [distance |-> 10, lux |-> 5, delay |-> 30]]

\* Snapshots whose data is a mapping of doors, of any product.
DoorSnapshots ==
    { [result |-> "OK", dev_id |-> "_30_ae_a4_80_18_80_", product |-> p,
       door_num |-> n, night_mode_en |-> m, data |-> d] :
        p \in Products, n \in 0 .. MaxDoorNum, m \in {0, 1}, d \in DoorMaps }

\* Snapshots whose data is a light record, and snapshots with no door_num,
\* night_mode_en or data at all: of the products that are no "iQ3".
LightSnapshots ==
    { [result |-> "OK", dev_id |-> "_8c_aa_b5_01_02_03_", product |-> p,
       door_num |-> n, night_mode_en |-> 1, data |-> LightRecord] : p \in Products \ {"iQ3"}, n \in 0 .. MaxDoorNum }

BareSnapshots == { [result |-> "OK", product |-> p] : p \in Products \ {"iQ3"} }

ViewInit ==
    \/ \E data \in DoorSnapshots : Constructed(data)
    \/ \E data \in LightSnapshots : Constructed(data)
    \/ \E data \in BareSnapshots : Constructed(data)

ViewNext == ReadAccessors

ViewSpec == ViewInit /\ [][ViewNext]_vars

(***************************************************************************)
(* What the claims speak of.                                               *)
(***************************************************************************)
Commands == {"async_open_door", "async_partial_open_door", "async_close_door",
             "async_set_status_led_brightness"}

\* The call of c has ended.
Done(c) == call[c].pc = "done"

\* The call of c is a command that has ended.
EndedCommand(c) == Done(c) /\ call[c].op \in Commands

Failed(c) == call[c].result.kind = "raised"

\* The request is the command envelope that op sends.
IsCommandOf(req, op) ==
    /\ req.version = "0.1"
    /\ req.data.type = "set"
    /\ req.data.name = (IF op = "async_set_status_led_brightness"
                        THEN "status_led" ELSE "door_op")

\* C1: a command that succeeds has sent exactly two requests, its command
\* and then dev_st "get", and the snapshot is the whole decoded body of the
\* second response, not the body of the command's response.
C1_SuccessIsCommandThenUpdate ==
    \A c \in Callers :
       (EndedCommand(c) /\ call[c].result = Returned) =>
          /\ Len(call[c].reqs) = 2
          /\ Len(call[c].replies) = 2
          /\ IsCommandOf(call[c].reqs[1], call[c].op)
          /\ call[c].reqs[2] = DevStRequest
          /\ ~call[c].replies[1].raised
          /\ ~call[c].replies[2].raised
          /\ call[c].replies[2].resp.body.tag = "json"
          /\ raw_data = call[c].replies[2].resp.body.value
          /\ raw_data # call[c].replies[1].resp.body.value

\* C1's case: a door command has succeeded and the snapshot has changed.
C1_Witness ==
    \E c \in Callers :
       /\ EndedCommand(c)
       /\ call[c].result = Returned
       /\ call[c].op = "async_open_door"
       /\ raw_data # call[c].before
       /\ raw_data = DevStatus(device)

\* C2: a call that ends in an error, of any kind and in either round trip,
\* leaves the snapshot as it was before the call.
C2_ErrorKeepsSnapshot ==
    \A c \in Callers : (Done(c) /\ Failed(c)) => raw_data = call[c].before

\* C2's case: a command whose refresh failed after the device executed it,
\* with a snapshot to lose.
C2_Witness ==
    \E c \in Callers :
       /\ EndedCommand(c)
       /\ Failed(c)
       /\ Len(call[c].reqs) = 2
       /\ call[c].executed
       /\ call[c].before # EmptyDict
       /\ call[c].before # DevStatus(device)

\* C3 as claimed: a command that ends in an error has sent its command
\* request only, and no dev_st request.
C3_FailureSendsOneRequest ==
    \A c \in Callers :
       (EndedCommand(c) /\ Failed(c)) =>
          /\ Len(call[c].reqs) = 1
          /\ \A i \in 1 .. Len(call[c].reqs) : call[c].reqs[i] # DevStRequest

\* C3 amended: a command that ends in an error has sent its command request
\* only when the command's round trip failed, and has sent the command and
\* then dev_st when the command's round trip succeeded and the refresh failed.
C3_FailureStopsAtFailingTrip ==
    \A c \in Callers :
       (EndedCommand(c) /\ Failed(c)) =>
          /\ Len(call[c].reqs) \in {1, 2}
          /\ Len(call[c].replies) = Len(call[c].reqs)
          /\ IsCommandOf(call[c].reqs[1], call[c].op)
          /\ (Len(call[c].reqs) = 1) <=> ~GoodReply(call[c].replies[1])
          /\ (Len(call[c].reqs) = 2) =>
                /\ call[c].reqs[2] = DevStRequest
                /\ ~GoodReply(call[c].replies[2])

\* C3's case: a command has ended in an error of its refresh, by an HTTP
\* error status, after two requests.
C3_Witness ==
    \E c \in Callers :
       /\ EndedCommand(c)
       /\ Failed(c)
       /\ Len(call[c].reqs) = 2
       /\ call[c].result.exc = ClientResponseError(500)

\* C4 as claimed: no command has ended in an error while the device has
\* executed it.
C4_NoErrorAfterExecution ==
    \A c \in Callers : ~(EndedCommand(c) /\ Failed(c) /\ call[c].executed)

\* C4 amended: a command can end in an error after the device has executed
\* it; then the snapshot is the one before the call, and if the command's
\* round trip succeeded the error is the one of the refresh.
C4_ExecutedThenFailedKeepsSnapshot ==
    \A c \in Callers :
       (EndedCommand(c) /\ Failed(c) /\ call[c].executed) =>
          /\ raw_data = call[c].before
          /\ GoodReply(call[c].replies[1]) =>
                /\ Len(call[c].reqs) = 2
                /\ call[c].reqs[2] = DevStRequest
                /\ ~GoodReply(call[c].replies[2])
                /\ call[c].result = Raised(RoundTrip(call[c].replies[2]).exc)

\* C4's case: the door has been opened by a command that ended in an error,
\* and the snapshot still shows it closed.
C4_Witness ==
    \E c \in Callers :
       /\ EndedCommand(c)
       /\ Failed(c)
       /\ call[c].executed
       /\ call[c].op = "async_open_door"
       /\ device.doors[1] = "open"
       /\ raw_data = DevStatus(InitDevice)

\* C5: a command succeeds exactly when both its round trips succeed; if not
\* it ends with the error that its first failing round trip raised, as
\* raised, and it has sent each request once.
C5_ErrorOfFirstFailingTrip ==
    \A c \in Callers :
       EndedCommand(c) =>
          LET n == Len(call[c].reqs) IN
          /\ n \in {1, 2}
          /\ Len(call[c].replies) = n
          /\ (n = 2) => call[c].reqs[1] # call[c].reqs[2]
          /\ (call[c].result = Returned) <=>
                /\ n = 2
                /\ GoodReply(call[c].replies[1])
                /\ GoodReply(call[c].replies[2])
          /\ Failed(c) =>
                /\ \A i \in 1 .. (n - 1) : GoodReply(call[c].replies[i])
                /\ ~GoodReply(call[c].replies[n])
                /\ call[c].result = Raised(RoundTrip(call[c].replies[n]).exc)

\* C5's case: the command's round trip has failed with the device's error
\* and the call has ended with that TailwindError.
C5_Witness ==
    \E c \in Callers :
       /\ EndedCommand(c)
       /\ Len(call[c].reqs) = 1
       /\ ~call[c].replies[1].raised
       /\ call[c].replies[1].resp.body = JsonBody([result |-> "ERR", info |-> "busy"])
       /\ call[c].result = Raised(TailwindError("busy"))

\* C6: the replacement of the snapshot is not guarded.  A call of
\* async_update that succeeds, alone or at the end of a command, makes the
\* body of its own dev_st response the snapshot, whatever the other calls
\* have stored meanwhile and however old its response is; so of two
\* overlapping commands that both succeed, the one that resumes last can
\* leave the older status as the snapshot.
C6_UpdateOverwritesUnguarded ==
    [][ \A c \in Callers :
          (call[c].pc = "update" /\ call'[c].pc = "done" /\ call'[c].result = Returned) =>
             /\ raw_data' = LastReply(c).resp.body.value
             /\ snapStamp' = LastReply(c).stamp ]_vars

\* C6's case: two commands have both succeeded; the snapshot is the dev_st
\* response of c, which the device produced before it executed the command
\* of d, and it differs from the newer status that d had stored, which is
\* the status of the device.
C6_Witness ==
    \E c, d \in Callers :
       /\ c # d
       /\ EndedCommand(c) /\ call[c].result = Returned
       /\ EndedCommand(d) /\ call[d].result = Returned
       /\ call[d].executed
       /\ call[c].replies[2].stamp < call[d].replies[1].stamp
       /\ snapStamp = call[c].replies[2].stamp
       /\ raw_data = call[c].replies[2].resp.body.value
       /\ call[d].replies[2].resp.body.value = DevStatus(device)
       /\ raw_data # DevStatus(device)

\* The round trips whose response get_json has been given: the response
\* and what get_json did with it.
Decodings ==
    UNION { { [resp |-> call[c].replies[i].resp, out |-> call[c].outcomes[i]] :
                i \in { k \in 1 .. Len(call[c].outcomes) : ~call[c].replies[k].raised } } :
            c \in Callers }

\* The calls of resp.json that get_json made, in order.
JsonOps(out) == SelectSeq(out.ops, LAMBDA o : o[1] = "json")

HasOp(out, op) == \E i \in 1 .. Len(out.ops) : out.ops[i] = op

\* get_json's first decode of the response does not raise ContentTypeError.
DeclaredJson(resp) == resp.ctype = JSON_CONTENT_TYPE

\* One of get_json's two decodes of the response reads the body.
Readable(resp) == resp.ctype \in {JSON_CONTENT_TYPE, HTML_CONTENT_TYPE}

\* C7: a response whose status is an HTTP error makes get_json raise that
\* HTTP error without any decode of the body, whatever the body is.
C7_HttpErrorBeforeDecode ==
    \A t \in Decodings :
       t.resp.status >= 400 =>
          /\ ~t.out.ok
          /\ t.out.exc = ClientResponseError(t.resp.status)
          /\ JsonOps(t.out) = <<>>
          /\ t.out.ops = <<RaiseForStatusOp>>

\* C7's case: a response of status 500 whose body is {"result": "OK"},
\* declared as JSON, has been given to get_json.
C7_Witness ==
    \E t \in Decodings :
       /\ t.resp = Response(500, JSON_CONTENT_TYPE, JsonBody(CommandDone))
       /\ ~t.out.ok

\* C8 as claimed: every decoded, non-null envelope whose result is not "OK"
\* makes get_json raise a TailwindError, with the envelope's info when it
\* has one, and also when it has none.
C8_ErrorEnvelopeRaisesTailwindError ==
    \A t \in Decodings :
       ( /\ t.resp.status < 400
         /\ Readable(t.resp)
         /\ t.resp.body.tag = "json"
         /\ t.resp.body.value # None
         /\ "result" \in DOMAIN t.resp.body.value
         /\ t.resp.body.value.result # "OK" ) =>
          /\ ~t.out.ok
          /\ t.out.exc.exc = "TailwindError"
          /\ ("info" \in DOMAIN t.resp.body.value) =>
                t.out.exc.info = t.resp.body.value.info

\* C9: a response with a good status whose decoded body is None makes
\* get_json raise the TailwindError of an empty response, and the result
\* field has not been read.
C9_NullBodyIsEmptyResponse ==
    \A t \in Decodings :
       ( /\ t.resp.status < 400
         /\ Readable(t.resp)
         /\ t.resp.body = JsonBody(None) ) =>
          /\ ~t.out.ok
          /\ t.out.exc = TailwindError(EMPTY_RESPONSE)
          /\ HasOp(t.out, IsNoneOp)
          /\ ~HasOp(t.out, GetItemOp("result"))

\* C9's case: a null body with status 200 has been given to get_json.
C9_Witness ==
    \E t \in Decodings :
       /\ t.resp = Response(200, JSON_CONTENT_TYPE, JsonBody(None))
       /\ ~t.out.ok

\* What get_json does with the response once its body is decoded by the
\* n-th call of resp.json.
AfterDecode(resp, n) ==
    LET ops == <<RaiseForStatusOp, JsonOp(JSON_CONTENT_TYPE)>>
               \o (IF n = 2 THEN <<JsonOp(HTML_CONTENT_TYPE)>> ELSE <<>>)
    IN IF resp.body.tag = "json"
       THEN CheckEnvelope(resp.body.value, ops)
       ELSE Raises(JSONDecodeError, ops)

C11_GoodEnvelopeReturnedWhole ==
    \A t \in Decodings :
       ( /\ t.resp.status < 400
         /\ Readable(t.resp)
         /\ t.resp.body.tag = "json"
         /\ t.resp.body.value # None
         /\ "result" \in DOMAIN t.resp.body.value
         /\ t.resp.body.value.result = "OK" ) =>
          /\ t.out.ok
          /\ t.out.value = t.resp.body.value
          /\ DOMAIN t.out.value = DOMAIN t.resp.body.value
          /\ t.out.value.result = "OK"

\* C11's case: a device status with its data, product and result fields has
\* been given to get_json and returned.
C11_Witness ==
    \E t \in Decodings :
       /\ t.out.ok
       /\ {"result", "product", "data", "door_num"} \subseteq DOMAIN t.resp.body.value
       /\ t.out.value = DevStatus(device)

(***************************************************************************)
(* The accessors, under ViewSpec.                                          *)
(***************************************************************************)
\* The caller has read the accessors of a snapshot that names its product.
Viewed == ~view.none /\ "product" \in DOMAIN view.of

\* C12: for a snapshot of product "iQ3" with door_num N (a count, N >= 0),
\* doors has min(N, len(data)) entries and the i-th has the i-th key of data
\* in insertion order.
C12_DoorsTruncatedInOrder ==
    (Viewed /\ view.of.product = "iQ3") =>
       /\ view.doors.ok
       /\ Len(view.doors.value) = Min(view.of.door_num, Len(view.of.data))
       /\ \A i \in 1 .. Len(view.doors.value) :
             /\ door_key(view.doors.value[i]) = view.of.data[i].key
             /\ view.doors.value[i].raw_data = view.of.data[i].value

\* C12's case: doors of a snapshot whose data has more entries than door_num
\* has been read, and is the one door of the first key.
C12_Witness ==
    /\ Viewed
    /\ view.of.product = "iQ3"
    /\ view.of.door_num = 1
    /\ Len(view.of.data) = 2
    /\ view.of.data[1].key = "door2"
    /\ view.doors.ok
    /\ Len(view.doors.value) = 1
    /\ door_key(view.doors.value[1]) = "door2"

\* C13: for a snapshot whose product is not "iQ3", whatever door_num,
\* night_mode_en and data it has, num_doors is 0, doors is empty and
\* night_mode is false.
C13_NotIQ3HasNoDoors ==
    (Viewed /\ view.of.product # "iQ3") =>
       /\ view.num_doors = Value(0)
       /\ view.doors = Value(<<>>)
       /\ view.night_mode = Value(FALSE)

\* C13's case: a "light" snapshot with door_num 2, night_mode_en 1 and two
\* door records has been read.
C13_Witness ==
    /\ Viewed
    /\ view.of.product = "light"
    /\ view.of.dev_id = "_30_ae_a4_80_18_80_"
    /\ view.of.door_num = 2
    /\ view.of.night_mode_en = 1
    /\ Len(view.of.data) = 2
    /\ view.num_doors = Value(0)

\* C14: is_locked_out is lockedout == 1 when the record has the key
\* lockedout, whatever lockup; lockup == 1 when it has lockup only; and an
\* error, not false, when it has neither.
C14_LockedOutPrefersNewKey ==
    (~view.none /\ view.doors.ok) =>
       /\ Len(view.locked) = Len(view.doors.value)
       /\ \A i \in 1 .. Len(view.locked) :
             LET r == view.doors.value[i].raw_data IN
             /\ "lockedout" \in DOMAIN r => view.locked[i] = Value(r.lockedout = 1)
             /\ ("lockedout" \notin DOMAIN r /\ "lockup" \in DOMAIN r) =>
                   view.locked[i] = Value(r.lockup = 1)
             /\ ("lockedout" \notin DOMAIN r /\ "lockup" \notin DOMAIN r) =>
                   view.locked[i] = Fails(KeyError("lockup"))

\* C14's case: a door with lockedout 0 and lockup 1 has been read as not
\* locked out, and a door with neither key has raised.
C14_Witness ==
    /\ ~view.none
    /\ view.doors.ok
    /\ Len(view.doors.value) = 2
    /\ view.doors.value[1].raw_data = [status |-> "open", enabled |-> 1,
                                       lockedout |-> 0, lockup |-> 1]
    /\ view.locked[1] = Value(FALSE)
    /\ view.doors.value[2].raw_data = [status |-> "close", enabled |-> 1]
    /\ ~view.locked[2].ok

\* C16: light is None for a snapshot whose product is not "light", and a
\* Light over the snapshot's data for one whose product is "light"; so no
\* snapshot has both a door in doors and a light.
C16_LightOnlyForLightProduct ==
    Viewed =>
       /\ view.of.product # "light" => view.light = Value(None)
       /\ (view.of.product = "light" /\ "data" \in DOMAIN view.of) =>
             /\ view.light.ok
             /\ view.light.value # None
             /\ view.light.value.raw_data = view.of.data
       /\ ~( /\ view.doors.ok
             /\ view.doors.value # <<>>
             /\ view.light.ok
             /\ view.light.value # None )

\* C16's case: the light of a "light" snapshot has been read, and its mode.
C16_Witness ==
    /\ Viewed
    /\ view.of.product = "light"
    /\ view.of.dev_id = "_8c_aa_b5_01_02_03_"
    /\ "data" \in DOMAIN view.of
    /\ view.light.ok
    /\ mode(view.light.value) = Value("auto")
    /\ light_power(view.light.value) = Value(100)
    /\ view.doors = Value(<<>>)

(***************************************************************************)
(* The requests of the commands.                                           *)
(***************************************************************************)
DoorCommands == {"async_open_door", "async_partial_open_door", "async_close_door"}

\* The request the call c sent first: the command's own.
FirstRequest(c) == call[c].reqs[1]

\* C15: the value of a door_op request has the key partial_time exactly when
\* the call is async_partial_open_door with a partial_time that is not None;
\* async_open_door sends {door_idx, cmd: "open"}, async_close_door sends
\* {door_idx, cmd: "close"}, and the envelope has version "0.1", type "set"
\* and name "door_op".
C15_PartialTimeOnlyWhenGiven ==
    \A c \in Callers :
       (call[c].pc # "idle" /\ call[c].op \in DoorCommands) =>
          LET req == FirstRequest(c)
              a == call[c].args
          IN /\ req.version = "0.1"
             /\ req.data.type = "set"
             /\ req.data.name = "door_op"
             /\ "partial_time" \in DOMAIN req.data.value <=>
                   (call[c].op = "async_partial_open_door" /\ a.partial_time # None)
             /\ call[c].op = "async_open_door" =>
                   req.data.value = [door_idx |-> a.index, cmd |-> "open"]
             /\ call[c].op = "async_close_door" =>
                   req.data.value = [door_idx |-> a.index, cmd |-> "close"]
             /\ (call[c].op = "async_partial_open_door" /\ a.partial_time # None) =>
                   req.data.value = [door_idx |-> a.index, cmd |-> "open",
                                     partial_time |-> a.partial_time.v]
             /\ (call[c].op = "async_partial_open_door" /\ a.partial_time = None) =>
                   req.data.value = [door_idx |-> a.index, cmd |-> "open"]

\* C15's case: async_partial_open_door(1, 0) has sent its request, with
\* partial_time 0 in the value, and the device has answered it.
C15_Witness ==
    \E c \in Callers :
       /\ call[c].pc # "idle"
       /\ call[c].op = "async_partial_open_door"
       /\ call[c].args = [index |-> 1, partial_time |-> Some(0)]
       /\ FirstRequest(c).data.value.partial_time = 0
       /\ Len(call[c].replies) >= 1

\* Every reply to the call of c was one with which its round trip succeeds.
AllTripsGood(c) ==
    \A i \in 1 .. Len(call[c].replies) : RoundTrip(call[c].replies[i]).ok

\* C19: a command sends its arguments as given: the status_led request
\* carries the brightness unchanged, also outside 0..100, and a door_op
\* request the door index unchanged, also when it is not below num_doors or
\* the snapshot is of no "iQ3".  The request is sent in every case, and the
\* command fails only when a round trip of it fails.
C19_ArgumentsSentAsGiven ==
    \A c \in Callers :
       (call[c].pc # "idle" /\ call[c].op \in Commands) =>
          /\ Len(call[c].reqs) >= 1
          /\ IsCommandOf(FirstRequest(c), call[c].op)
          /\ call[c].op = "async_set_status_led_brightness" =>
                FirstRequest(c).data.value = [brightness |-> call[c].args.brightness]
          /\ call[c].op \in DoorCommands =>
                FirstRequest(c).data.value.door_idx = call[c].args.index
          /\ Done(c) =>
                /\ Len(call[c].replies) >= 1
                /\ Failed(c) <=> ~AllTripsGood(c)

\* C19's case: a door command for index 1 was called on a snapshot of an
\* "iQ3" with one door, its request went out with door_idx 1, and the call
\* ended with the error of the device's answer.
C19_Witness ==
    \E c \in Callers :
       /\ Done(c)
       /\ call[c].op = "async_close_door"
       /\ call[c].args.index = 1
       /\ call[c].before # EmptyDict
       /\ num_doors(call[c].before) = Value(1)
       /\ FirstRequest(c).data.value.door_idx = 1
       /\ served >= 1
       /\ Failed(c)
       /\ ~call[c].executed

(***************************************************************************)
(* Where the snapshot comes from.                                          *)
(***************************************************************************)
\* No call is between its request and its end.
Quiescent == \A c \in Callers : call[c].pc \in {"idle", "done"}

\* C18: between sequentially issued calls, the snapshot is the one given at
\* construction while no dev_st exchange has succeeded, and afterwards the
\* whole body of the most recent good dev_st response, whose result is
\* "OK"; no command's response and no failed exchange has become it.
C18_SnapshotIsLastGoodDevSt ==
    Quiescent =>
       IF lastDevSt = NoDevSt
       THEN raw_data = init_data
       ELSE /\ raw_data = lastDevSt.body
            /\ snapStamp = lastDevSt.stamp
            /\ raw_data.result = "OK"

\* C18's case: after an update that succeeded, a command that the device
\* executed has failed at its refresh; the snapshot is still the body of
\* the earlier dev_st response, and no longer the status of the device.
C18_Witness ==
    \E c \in Callers :
       /\ Quiescent
       /\ EndedCommand(c)
       /\ Failed(c)
       /\ call[c].executed
       /\ Len(call[c].replies) = 2
       /\ lastDevSt # NoDevSt
       /\ raw_data = lastDevSt.body
       /\ raw_data # DevStatus(device)
       /\ raw_data # init_data

(***************************************************************************)
(* Projections that a caller keeps.                                        *)
(***************************************************************************)
\* C17: what a caller has read keeps the values of the tree it was read
\* from.  A step that replaces the snapshot leaves the tree read earlier,
\* and the doors and light over it, as they were; what the caller holds
\* changes only by a fresh read, which is over the snapshot of that moment.
C17_ProjectionsAreStale ==
    /\ [](~view.none => view = ReadView(view.tree, view.of))
    /\ [][ /\ (raw_data' # raw_data \/ snapStamp' # snapStamp) => view' = view
           /\ view' # view =>
                 /\ view' = ReadView(snapStamp, raw_data)
                 /\ UNCHANGED <<raw_data, snapStamp>> ]_vars

\* C17's case: the caller holds the door of a snapshot in which it is
\* closed; a command has succeeded since and replaced the snapshot, in
\* which the door is open, as a fresh read of doors would tell.
C17_Witness ==
    /\ ~view.none
    /\ view.tree # snapStamp
    /\ view.doors.ok
    /\ Len(view.doors.value) = 1
    /\ is_open(view.doors.value[1]) = Value(FALSE)
    /\ raw_data # EmptyDict
    /\ doors(raw_data).ok
    /\ Len(doors(raw_data).value) = 1
    /\ is_open(doors(raw_data).value[1]) = Value(TRUE)
    /\ \E c \in Callers : EndedCommand(c) /\ ~Failed(c)

====
